---- MODULE Spec2Model ----
(***************************************************************************)
(* Model of the asynchronous event propagation core of user-manager-api:   *)
(* the in-process event queue (mq.RabbitMQ.in), the PublisherWorker, the   *)
(* rmqconsumer DeliveryWorker, the user-service request handlers that      *)
(* enqueue events, the broker set-up in NewApp (connections, topology,     *)
(* subscription) and the lifecycle orchestrator App.Run.                   *)
(***************************************************************************)
EXTENDS Integers, Sequences, FiniteSets, TLC

\* ------------------------------------------------------------------ bounds

\* Capacity of the buffered channel r.in.  The source sets 128
\* (mq: const bufferSize = 128); the model scales it down so that a full
\* queue with blocked producers is reached within the explored requests.
bufferSize == 1

\* Number of deliveries waiting on c.chDelivery when the delivery handling
\* is examined on its own (DeliverySpec).
MaxDeliveries == 2

\* Number of requests the HTTP server accepts in one run; each is served by
\* its own handler goroutine, numbered in order of arrival.
NumHandlers == 2

\* The number of receives from the closed delivery stream that are followed
\* (the loop itself has no bound).
MaxZeroReceives == 2

\* ------------------------------------------------------------------ values

Handlers == 1..NumHandlers

\* UserService operations and the HTTP method each puts into Event.Method.
Ops == {"create", "update", "delete"}

\* Variant: UpdateUser labels its event with PATCH.
MethodOfPatch(op) ==
    CASE op = "create" -> "POST"
      [] op = "update" -> "PATCH"
      [] op = "delete" -> "DELETE"

MethodOf(op) ==
    CASE op = "create" -> "POST"
      [] op = "update" -> "PUT"
      [] op = "delete" -> "DELETE"

\* The requests of one run: the operation each request asks for.  The runs
\* explored are those in which consecutive requests rotate through the
\* operations, starting from any of them.
OpSeq == <<"create", "update", "delete">>

Workloads == {[h \in Handlers |-> OpSeq[((h + k) % 3) + 1]] : k \in 0..2}

\* Signals the process may receive while App.Run is active.
Signals == {"SIGINT", "SIGTERM", "SIGUSR1", "SIGURG"}

\* Variant: the SIGURG of the README is registered as well.
RegisteredWithUrg == {"SIGINT", "SIGTERM", "SIGUSR1", "SIGURG"}

\* Signals App.Run registers with signal.NotifyContext.
Registered == {"SIGINT", "SIGTERM", "SIGUSR1"}

\* Outcome of a repository call: an error, no record, or a record.
RepoOutcomes == {"err", "none", "rec"}

NoEvent == [id |-> 0, method |-> ""]

\* The routes with a body or a protected handler: POST /login, POST /users,
\* PUT /users/:user_id, DELETE /users/:user_id.
Routes == {"login", "create", "update", "delete"}

\* The routes registered with middleware.AuthMiddleware before the handler.
ProtectedRoutes == {"create", "update", "delete"}

\* Authorization header values, as the sequence of their parts: none, a
\* bare token, another scheme, the prefix alone, and "Bearer " followed by
\* a token the jwt service accepts or rejects.
AuthHeaders ==
    {<<>>, <<"good">>, <<"Basic ", "good">>, <<"Bearer ">>,
     <<"Bearer ", "bad">>, <<"Bearer ", "good">>}

\* strings.TrimPrefix(authHeader, "Bearer ").
TrimPrefixBearer(h) ==
    IF Len(h) > 0 /\ Head(h) = "Bearer " THEN Tail(h) ELSE h

\* jwtService.ValidateToken(tokenStr) returns no error.
ValidateToken(tok) == tok = <<"good">>

\* birth_date texts, as the sequence of their parts: blanks and a date.
\* "1990-01-01" is the date of an adult, "2015-01-01" of a minor,
\* "01/01/1990" is not in the layout 2006-01-02.
BirthDates ==
    {<<>>, <<" ">>, <<"1990-01-01">>, <<" ", "1990-01-01">>,
     <<"1990-01-01", " ">>, <<"2015-01-01">>, <<"01/01/1990">>}

RECURSIVE TrimLeft(_)
TrimLeft(s) == IF Len(s) > 0 /\ Head(s) = " " THEN TrimLeft(Tail(s)) ELSE s

RECURSIVE TrimRight(_)
TrimRight(s) ==
    IF Len(s) > 0 /\ s[Len(s)] = " "
    THEN TrimRight(SubSeq(s, 1, Len(s) - 1))
    ELSE s

\* strings.TrimSpace.
TrimSpace(s) == TrimRight(TrimLeft(s))

\* time.Parse("2006-01-02", s) returns no error: the text is a date in
\* the layout and nothing else.
ParseDate(s) == s \in {<<"1990-01-01">>, <<"2015-01-01">>}

\* dob.After(time.Now().UTC().AddDate(-18, 0, 0)): the date of a minor.
Under18(s) == s = <<"2015-01-01">>

\* The requests: route, Authorization header, whether :user_id is a UUID,
\* whether the body binds as JSON, whether the fields other than
\* birth_date pass validation, and the birth_date text.
Requests ==
    [route : Routes, auth : AuthHeaders, idIsUUID : BOOLEAN,
     bindOK : BOOLEAN, fieldsOK : BOOLEAN, birthDate : BirthDates]

\* No request is in the handler chain.
NoRequest ==
    [route |-> "none", auth |-> <<>>, idIsUUID |-> FALSE, bindOK |-> FALSE,
     fieldsOK |-> FALSE, birthDate |-> <<>>]

\* validator.ValidateUser(req) returns nil: the normalised fields are
\* valid; birth_date is trimmed, then required, parsed and checked for 18+.
ValidateUser(r) ==
    LET bdate == TrimSpace(r.birthDate) IN
        /\ r.fieldsOK
        /\ bdate # <<>>
        /\ ParseDate(bdate)
        /\ ~Under18(bdate)

\* user.ToDomainUser(req) returns an error: it parses BirthDate as sent.
ToDomainUserErr(r) == ~ParseDate(r.birthDate)

\* The broker connections the process dials: "pub" by RabbitMQ.Connect,
\* "cons" by Consumer.Connect.
ConnIds == {"pub", "cons"}

\* How a Connect can end: both calls succeed, the dial fails, or the dial
\* succeeds and opening the channel fails.
ConnectResults == {"ok", "dialErr", "chanErr"}

\* The connection state a Connect leaves behind: on a channel error it
\* closes the connection it dialed.
Dialed(res) ==
    CASE res = "ok" -> "open"
      [] res = "dialErr" -> "undialed"
      [] res = "chanErr" -> "closed"

\* ------------------------------------------------------ broker topology

\* Arguments of pubCh.ExchangeDeclare in RabbitMQ.Init: name and type from
\* the configuration, durable, not auto-deleted, not internal.
PubExchange ==
    [name |-> "cfg.Exchange", kind |-> "cfg.ExchangeType", durable |-> TRUE,
     autoDelete |-> FALSE, internal |-> FALSE]

\* Arguments of pubCh.QueueDeclare in RabbitMQ.Init: durable, not
\* auto-deleted, not exclusive.
PubQueue ==
    [name |-> "cfg.QueueName", durable |-> TRUE, autoDelete |-> FALSE,
     exclusive |-> FALSE]

\* Arguments of chConsume.ExchangeDeclare in Consumer.Init.
ConsExchange ==
    [name |-> "cfg.Exchange", kind |-> "cfg.ExchangeType", durable |-> TRUE,
     autoDelete |-> FALSE, internal |-> FALSE]

\* Variant: the consumer declares the queue as transient.
ConsQueueTransient ==
    [name |-> "cfg.QueueName", durable |-> FALSE, autoDelete |-> FALSE,
     exclusive |-> FALSE]

\* Arguments of chConsume.QueueDeclare in Consumer.Init.
ConsQueue ==
    [name |-> "cfg.QueueName", durable |-> TRUE, autoDelete |-> FALSE,
     exclusive |-> FALSE]

\* The routing keys both Init functions bind, in the order of their loops.
BindOrder == <<"POST", "PUT", "DELETE">>

Binding(q, rk, x) == [queue |-> q.name, key |-> rk, exchange |-> x.name]

\* The broker calls made by RabbitMQ.Init, in order.
PubInitSteps ==
    <<[op |-> "exchange", arg |-> PubExchange],
      [op |-> "queue", arg |-> PubQueue]>>
    \o [i \in 1..Len(BindOrder) |->
          [op |-> BindOrder[i],
           arg |-> Binding(PubQueue, BindOrder[i], PubExchange)]]

\* The broker calls made by Consumer.Init before Qos and Consume, in order.
ConsInitSteps ==
    <<[op |-> "exchange", arg |-> ConsExchange],
      [op |-> "queue", arg |-> ConsQueue]>>
    \o [i \in 1..Len(BindOrder) |->
          [op |-> BindOrder[i],
           arg |-> Binding(ConsQueue, BindOrder[i], ConsExchange)]]

\* Where the broker (or the connection) can make an Init function fail.
PubFailPoints == {"none", "exchange", "queue", "POST", "PUT", "DELETE"}

ConsFailPoints == PubFailPoints \cup {"qos", "consume"}

EmptyTopology == [exchanges |-> {}, queues |-> {}, bindings |-> {}]

\* The broker accepts a declaration when no entity of that name exists or
\* the existing one has the same arguments (otherwise PRECONDITION_FAILED);
\* it accepts a binding when its queue and its exchange exist.
StepOK(t, s) ==
    CASE s.op = "exchange" ->
            \A e \in t.exchanges : e.name = s.arg.name => e = s.arg
      [] s.op = "queue" ->
            \A e \in t.queues : e.name = s.arg.name => e = s.arg
      [] OTHER ->
            /\ \E e \in t.queues : e.name = s.arg.queue
            /\ \E e \in t.exchanges : e.name = s.arg.exchange

\* The topology after an accepted call: declaring what exists changes
\* nothing, a binding that exists is not added again.
StepApply(t, s) ==
    CASE s.op = "exchange" -> [t EXCEPT !.exchanges = @ \cup {s.arg}]
      [] s.op = "queue" -> [t EXCEPT !.queues = @ \cup {s.arg}]
      [] OTHER -> [t EXCEPT !.bindings = @ \cup {s.arg}]

\* An Init function's calls run in order and stop at the first error
\* (every call is followed by "if err != nil { return err }"): the
\* topology reached, and whether an error was returned.
RECURSIVE RunSteps(_, _, _)
RunSteps(t, steps, failAt) ==
    IF steps = <<>>
    THEN [topology |-> t, err |-> FALSE]
    ELSE IF Head(steps).op = failAt \/ ~StepOK(t, Head(steps))
         THEN [topology |-> t, err |-> TRUE]
         ELSE RunSteps(StepApply(t, Head(steps)), Tail(steps), failAt)

\* What a completed RabbitMQ.Init leaves on a broker that had nothing.
DeclaredTopology == RunSteps(EmptyTopology, PubInitSteps, "none").topology

VARIABLES
    ctxDone,        \* the shared (errgroup) context is cancelled
    sig,            \* the signal delivered to the process, not yet dispatched
    runPc,          \* position of App.Run
    runRet,         \* what App.Run returned
    srvShutdown,    \* httpSrv.Shutdown has been called
    httpTask,       \* state of the errgroup task running ListenAndServe
    in,             \* r.in: the buffered channel of events
    inClosed,       \* close(r.in) has happened
    pubPc,          \* position of PublisherWorker
    pubEv,          \* the event PublisherWorker dequeued and is publishing
    pubChClosed,    \* r.pubCh.Close() has happened
    pubCalls,       \* publish calls made, in order: <<id, key, ok>>
    brokerQ,        \* messages held by the broker queue
    chDelivery,     \* deliveries handed to the consumer, not yet received
    consPc,         \* position of DeliveryWorker
    chConsumeClosed,\* c.chConsume.Close() has happened
    handled,        \* deliveries dispatched to Consumer.delivery, in order
    hpc,            \* per handler: position inside the UserService call,
                    \* or the result the call returned
    hop,            \* per handler: operation its request asks for
    accepted,       \* ids of events the queue accepted, in order
    counters,       \* mCounter values per operation
    boot,           \* position of main / NewApp, or "exited"
    topology,       \* exchanges, queues and bindings the broker holds
    subscribed,     \* Consume has registered the consumer on the queue
    conns,          \* per dialed connection: "undialed", "open", "closed"
                    \* (by the process) or "lost" (closed by the broker)
    rConn,          \* r.conn of the publisher: "nil" or a connection
    cConn,          \* c.conn of the consumer: "nil" or a connection
    chConsume,      \* c.chConsume of the consumer: "nil" or "open"
    appClosed,      \* main's deferred app.Close() has run
    req,            \* the HTTP request in the router's handler chain
    rpc,            \* its position: "middleware", "handler", "aborted", "done"
    written,        \* the statuses of the responses written for it, in order
    svcCalls,       \* the service methods called for it, in order
    handlerRan      \* the route's controller handler was entered

vars == <<ctxDone, sig, runPc, runRet, srvShutdown, httpTask,
          in, inClosed, pubPc, pubEv, pubChClosed, pubCalls, brokerQ,
          chDelivery, consPc, chConsumeClosed, handled, hpc, hop,
          accepted, counters, boot, topology, subscribed, conns, rConn,
          cConn, chConsume, appClosed, req, rpc, written, svcCalls,
          handlerRan>>

runVars == <<runPc, runRet, srvShutdown>>
ctxVars == <<ctxDone, sig>>
pubVars == <<pubPc, pubEv, pubChClosed, pubCalls>>
qVars == <<in, inClosed, accepted>>
consVars == <<consPc, chConsumeClosed, handled>>
brokerVars == <<brokerQ, chDelivery>>
hVars == <<hpc, hop, counters>>
connVars == <<conns, rConn, cConn, chConsume>>
bootVars == <<boot, topology, subscribed, connVars, appClosed>>
reqVars == <<req, rpc, written, svcCalls, handlerRan>>

\* Routing keys bound to the queue by RabbitMQ.Init / Consumer.Init.
BoundKeys == {b.key : b \in topology.bindings}

\* State when main has entered NewApp and reached its rabbitMQ section
\* (logger, configuration, database and S3 are set up; failures there end
\* the process the same way).  The broker either holds nothing or still
\* holds the durable topology a previous run declared.
Init ==
    /\ ctxDone = FALSE
    /\ sig = "none"
    /\ runPc = "start"
    /\ runRet = "none"
    /\ srvShutdown = FALSE
    /\ httpTask = "notStarted"
    /\ in = <<>>
    /\ inClosed = FALSE
    /\ pubPc = "notStarted"
    /\ pubEv = NoEvent
    /\ pubChClosed = FALSE
    /\ pubCalls = <<>>
    /\ brokerQ = <<>>
    /\ chDelivery = <<>>
    /\ consPc = "notStarted"
    /\ chConsumeClosed = FALSE
    /\ handled = <<>>
    /\ hpc = [h \in Handlers |-> "idle"]
    /\ hop \in Workloads
    /\ accepted = <<>>
    /\ counters = [o \in Ops |-> 0]
    /\ boot = "mqConnect"
    /\ topology \in {EmptyTopology, DeclaredTopology}
    /\ subscribed = FALSE
    /\ conns = [c \in ConnIds |-> "undialed"]
    /\ rConn = "nil"
    /\ cConn = "nil"
    /\ chConsume = "nil"
    /\ appClosed = FALSE
    /\ req = NoRequest
    /\ rpc = "done"
    /\ written = <<>>
    /\ svcCalls = <<>>
    /\ handlerRan = FALSE

\* ------------------------------------------------------ main and NewApp

appVars == <<ctxDone, sig, runPc, runRet, srvShutdown, httpTask, in, inClosed,
             pubPc, pubEv, pubChClosed, pubCalls, brokerQ, chDelivery, consPc,
             chConsumeClosed, handled, hpc, hop, accepted, counters,
             reqVars>>

\* rbMQ.Connect(ctx, rabbitDsn): dial and open the publish channel.  The
\* dial's result is assigned to r.conn (nil on an error); when the channel
\* cannot be opened the connection is closed.  On an error NewApp calls
\* logger.Fatal, which ends the process.
MqConnect(res) ==
    /\ boot = "mqConnect"
    /\ rConn' = IF res = "dialErr" THEN "nil" ELSE "pub"
    /\ conns' = [conns EXCEPT !["pub"] = Dialed(res)]
    /\ boot' = IF res = "ok" THEN "mqInit" ELSE "exited"
    /\ UNCHANGED <<appVars, topology, subscribed, cConn, chConsume, appClosed>>

\* rbMQ.Init(): exchange, queue and the three bindings.  What was declared
\* before an error stays on the broker; the error ends the process.  With
\* no error NewApp constructs the consumer with the publisher's connection
\* (rmqconsumer.New(cfg.MQ, logger, rbMQ.GetConn())).
MqInit(failAt) ==
    /\ boot = "mqInit"
    /\ LET r == RunSteps(topology, PubInitSteps, failAt) IN
          /\ topology' = r.topology
          /\ boot' = IF r.err THEN "exited" ELSE "consConnect"
          /\ cConn' = IF r.err THEN cConn ELSE rConn
    /\ UNCHANGED <<appVars, subscribed, conns, rConn, chConsume, appClosed>>

\* Variant: when the channel cannot be opened the connection that was
\* dialed is left open.
ConsConnectLeaksConn(res) ==
    /\ boot = "consConnect"
    /\ cConn' = IF res = "dialErr" THEN "nil" ELSE "cons"
    /\ conns' = [conns EXCEPT
                   !["cons"] = IF res = "dialErr" THEN "undialed" ELSE "open"]
    /\ chConsume' = IF res = "ok" THEN "open" ELSE "nil"
    /\ boot' = IF res = "ok" THEN "consInit" ELSE "exited"
    /\ UNCHANGED <<appVars, topology, subscribed, rConn, appClosed>>

\* rmqConsumer.Connect(rabbitDsn): dial a connection of its own, assigned
\* to c.conn in place of the one the consumer was constructed with (nil on
\* a dial error), and open the consume channel on it; when the channel
\* cannot be opened the new connection is closed.
ConsConnect(res) ==
    /\ boot = "consConnect"
    /\ cConn' = IF res = "dialErr" THEN "nil" ELSE "cons"
    /\ conns' = [conns EXCEPT !["cons"] = Dialed(res)]
    /\ chConsume' = IF res = "ok" THEN "open" ELSE "nil"
    /\ boot' = IF res = "ok" THEN "consInit" ELSE "exited"
    /\ UNCHANGED <<appVars, topology, subscribed, rConn, appClosed>>

\* Variant: NewApp only logs the error of rmqConsumer.Init and goes on.
ConsInitIgnoreError(failAt) ==
    /\ boot = "consInit"
    /\ LET r == RunSteps(topology, ConsInitSteps, failAt) IN
          /\ topology' = r.topology
          /\ subscribed' = (~r.err /\ failAt \notin {"qos", "consume"})
          /\ boot' = "ready"
    /\ UNCHANGED <<appVars, connVars, appClosed>>

\* rmqConsumer.Init(): exchange, queue and the three bindings again, then
\* Qos and Consume.  With no error the consumer is subscribed, NewApp
\* returns and main goes on to InitControllers and app.Run.
ConsInit(failAt) ==
    /\ boot = "consInit"
    /\ LET r == RunSteps(topology, ConsInitSteps, failAt) IN
          /\ topology' = r.topology
          /\ subscribed' = (~r.err /\ failAt \notin {"qos", "consume"})
          /\ boot' = IF subscribed' THEN "ready" ELSE "exited"
    /\ UNCHANGED <<appVars, connVars, appClosed>>

\* main's deferred app.Close(), which runs when app.Run returned nil (on an
\* error main calls os.Exit(1) and the deferred call is skipped): it closes
\* a.mq.GetConn(), the publisher's connection, if there is one.
MainClose ==
    /\ boot = "ready"
    /\ runPc = "done"
    /\ runRet = "nil"
    /\ ~appClosed
    /\ appClosed' = TRUE
    /\ conns' = IF rConn = "nil" THEN conns
                ELSE [conns EXCEPT ![rConn] = "closed"]
    /\ UNCHANGED <<appVars, boot, topology, subscribed, rConn, cConn,
                   chConsume>>

\* App.Run has been called and has not returned: the span in which
\* signal.NotifyContext is registered (line 151 to the deferred stop()).
Running == runPc \notin {"start", "done"}

\* ------------------------------------------------------- shared context

\* A signal reaches the process while signal.NotifyContext is registered
\* (between App.Run's first line and its deferred stop()).  A signal that
\* arrives after the cancellation changes nothing and is left out.
Signal(s) ==
    /\ Running
    /\ ~ctxDone
    /\ sig = "none"
    /\ sig' = s
    /\ UNCHANGED <<reqVars, bootVars, ctxDone, runVars, httpTask, pubVars,
                   qVars, consVars, brokerVars, hVars>>

\* The runtime dispatches the pending signal: a signal registered with
\* signal.NotifyContext (line 151) cancels the context, any other signal
\* does not reach the application.
SignalDispatch ==
    /\ Running
    /\ sig # "none"
    /\ sig' = "none"
    /\ ctxDone' = (ctxDone \/ sig \in Registered)
    /\ UNCHANGED <<reqVars, bootVars, runVars, httpTask, pubVars, qVars,
                   consVars, brokerVars, hVars>>

\* ------------------------------------------------------------- App.Run

\* Lines 151-177: signal.NotifyContext, errgroup.WithContext and the three
\* g.Go calls.  None of them blocks, and a cancellation that falls between
\* them is observed by the tasks exactly as one that falls right after
\* them, so they are taken as one step.  main passes context.Background()
\* (cmd/usermanager/main.go:18), which is never cancelled, so the derived
\* context starts live.
RunStart ==
    /\ boot = "ready"
    /\ runPc = "start"
    /\ runPc' = "waitCtx"
    /\ ctxDone' = FALSE
    /\ httpTask' = "spawned"
    /\ pubPc' = "select"
    /\ consPc' = "select"
    /\ UNCHANGED <<reqVars, bootVars, sig, runRet, srvShutdown, pubEv,
                   pubChClosed, pubCalls, qVars, chConsumeClosed, handled,
                   brokerVars, hVars>>

\* <-ctx.Done(), then a.httpSrv.Shutdown(shutdownCtx) is entered: the server
\* is marked as shutting down and its listeners are closed.
RunCtxDone ==
    /\ runPc = "waitCtx"
    /\ ctxDone
    /\ runPc' = "shutdown"
    /\ srvShutdown' = TRUE
    /\ UNCHANGED <<reqVars, bootVars, ctxVars, runRet, httpTask, pubVars,
                   qVars, consVars, brokerVars, hVars>>

\* A request handler is in flight (its connection is not idle).
ActiveHandlers == {h \in Handlers : hpc[h] \in {"repo", "send"}}

\* Shutdown returns nil: every connection is idle.
RunShutdownOK ==
    /\ runPc = "shutdown"
    /\ ActiveHandlers = {}
    /\ runPc' = "wait"
    /\ UNCHANGED <<reqVars, bootVars, ctxVars, runRet, srvShutdown, httpTask,
                   pubVars, qVars, consVars, brokerVars, hVars>>

\* Shutdown returns shutdownCtx.Err(): the 5 s grace period ran out while
\* a connection was still active.  App.Run returns that error at once.
RunShutdownErr ==
    /\ runPc = "shutdown"
    /\ ActiveHandlers # {}
    /\ runPc' = "done"
    /\ runRet' = "shutdownErr"
    /\ UNCHANGED <<reqVars, bootVars, ctxVars, srvShutdown, httpTask,
                   pubVars, qVars, consVars, brokerVars, hVars>>

\* Variant: the wait group counts only the first two tasks.
TasksReturnedButConsumer ==
    /\ httpTask \in {"retNil", "retErr"}
    /\ pubPc = "stopped"

\* Every function passed to g.Go has returned.
TasksReturned ==
    /\ httpTask \in {"retNil", "retErr"}
    /\ pubPc = "stopped"
    /\ consPc = "stopped"

\* g.Wait() returns the first non-nil error of the group, else nil.
RunWait ==
    /\ runPc = "wait"
    /\ TasksReturned
    /\ runPc' = "done"
    /\ runRet' = IF httpTask = "retErr" THEN "taskErr" ELSE "nil"
    /\ UNCHANGED <<reqVars, bootVars, ctxVars, srvShutdown, httpTask,
                   pubVars, qVars, consVars, brokerVars, hVars>>

\* ------------------------------------------------------- HTTP server task

\* ListenAndServe binds the port and starts accepting connections.
HttpListen ==
    /\ httpTask = "spawned"
    /\ ~srvShutdown
    /\ httpTask' = "serving"
    /\ UNCHANGED <<reqVars, bootVars, ctxVars, runVars, pubVars, qVars,
                   consVars, brokerVars, hVars>>

\* ListenAndServe returns an error other than ErrServerClosed (bind or
\* accept failure); the errgroup cancels the shared context.  A signal
\* still awaiting its dispatch can change nothing once the context is
\* cancelled (as one arriving after the cancellation) and is dropped.
HttpFail ==
    /\ httpTask \in {"spawned", "serving"}
    /\ ~srvShutdown
    /\ httpTask' = "retErr"
    /\ ctxDone' = TRUE
    /\ sig' = "none"
    /\ UNCHANGED <<reqVars, bootVars, runVars, pubVars, qVars, consVars,
                   brokerVars, hVars>>

\* Variant: only a server that is already serving notices the Shutdown.
HttpClosedOnlyWhenServing ==
    /\ httpTask = "serving"
    /\ srvShutdown
    /\ httpTask' = "retNil"
    /\ UNCHANGED <<reqVars, bootVars, ctxVars, runVars, pubVars, qVars,
                   consVars, brokerVars, hVars>>

\* ListenAndServe returns ErrServerClosed after Shutdown; the task returns nil.
HttpClosed ==
    /\ httpTask \in {"spawned", "serving"}
    /\ srvShutdown
    /\ httpTask' = "retNil"
    /\ UNCHANGED <<reqVars, bootVars, ctxVars, runVars, pubVars, qVars,
                   consVars, brokerVars, hVars>>

\* --------------------------------------- UserService request handlers

\* The server dispatches the next request to CreateUser / UpdateUser /
\* DeleteUser; the use case calls the repository.
HandlerStart(h) ==
    /\ httpTask = "serving"
    /\ ~srvShutdown
    /\ hpc[h] = "idle"
    /\ \A g \in Handlers : g < h => hpc[g] # "idle"
    /\ hpc' = [hpc EXCEPT ![h] = "repo"]
    /\ UNCHANGED <<reqVars, bootVars, ctxVars, runVars, httpTask, pubVars,
                   qVars, consVars, brokerVars, hop, counters>>

\* What the repository can return to each use case: CreateUser returns a
\* record or an error; UpdateUser and DeleteUser also return (nil, nil)
\* when no row matched.
OutcomesOf(op) == IF op = "create" THEN {"err", "rec"} ELSE RepoOutcomes

\* The repository call returns.  On an error the use case returns it; with
\* no record it skips the enqueue, increments the counter and returns; with
\* a record it builds the Event and reaches the channel send.
RepoReturn(h, out) ==
    /\ hpc[h] = "repo"
    /\ out \in OutcomesOf(hop[h])
    /\ hpc' = [hpc EXCEPT ![h] = CASE out = "err" -> "err"
                                   [] out = "none" -> "ok"
                                   [] out = "rec" -> "send"]
    /\ counters' = IF out = "none"
                   THEN [counters EXCEPT ![hop[h]] = @ + 1]
                   ELSE counters
    /\ UNCHANGED <<reqVars, bootVars, ctxVars, runVars, httpTask, pubVars,
                   qVars, consVars, brokerVars, hop>>

\* mq.Event{Id: uuid.New(), Method: http.MethodXxx, ...} built by handler h;
\* the fresh uuid is modelled by the request's number.
EventOf(h) == [id |-> h, method |-> MethodOf(hop[h])]

\* Variant: the buffer takes one event more than its capacity.
CanSendOverCapacity == ~inClosed /\ Len(in) <= bufferSize

\* The channel send us.mq.GetInputChan() <- ev can complete.
CanSend == ~inClosed /\ Len(in) < bufferSize

\* The send completes: the event is buffered, the counter is incremented
\* and the use case returns success.
Send(h) ==
    /\ hpc[h] = "send"
    /\ CanSend
    /\ in' = Append(in, EventOf(h))
    /\ accepted' = Append(accepted, h)
    /\ counters' = [counters EXCEPT ![hop[h]] = @ + 1]
    /\ hpc' = [hpc EXCEPT ![h] = "ok"]
    /\ UNCHANGED <<reqVars, bootVars, ctxVars, runVars, httpTask, pubVars,
                   inClosed, consVars, brokerVars, hop>>

\* Variant: a goroutine whose send was blocked when the channel got closed
\* is not woken; only a send that starts after the close panics.
SendPanicNotWoken(h) ==
    /\ hpc[h] = "send"
    /\ inClosed
    /\ Len(in) < bufferSize
    /\ hpc' = [hpc EXCEPT ![h] = "panic"]
    /\ UNCHANGED <<reqVars, bootVars, ctxVars, runVars, httpTask, pubVars,
                   qVars, consVars, brokerVars, hop, counters>>

\* The send meets a closed channel (whether it starts after the close or
\* was blocked when the close happened): the goroutine panics with "send on
\* closed channel"; gin.Recovery turns the panic into a 500 response.
SendPanic(h) ==
    /\ hpc[h] = "send"
    /\ inClosed
    /\ hpc' = [hpc EXCEPT ![h] = "panic"]
    /\ UNCHANGED <<reqVars, bootVars, ctxVars, runVars, httpTask, pubVars,
                   qVars, consVars, brokerVars, hop, counters>>

\* ----------------------------------------------------- PublisherWorker

\* Variant: the worker reads the head of the queue without removing it.
PubDequeueKeepsHead ==
    /\ pubPc = "select"
    /\ Len(in) > 0
    /\ pubEv' = Head(in)
    /\ pubPc' = "publishing"
    /\ UNCHANGED <<reqVars, bootVars, ctxVars, runVars, httpTask, qVars,
                   pubChClosed, pubCalls, consVars, brokerVars, hVars>>

\* select: case e := <-r.in.  Go chooses among the ready cases at random,
\* so this branch stays available after the context is cancelled.
PubDequeue ==
    /\ pubPc = "select"
    /\ Len(in) > 0
    /\ pubEv' = Head(in)
    /\ in' = Tail(in)
    /\ pubPc' = "publishing"
    /\ UNCHANGED <<reqVars, bootVars, ctxVars, runVars, httpTask, inClosed,
                   accepted, pubChClosed, pubCalls, consVars, brokerVars,
                   hVars>>

\* Variant: a publish error makes the worker return.
publishFailureStops(ok) ==
    /\ pubPc = "publishing"
    /\ pubCalls' = Append(pubCalls,
                          [id |-> pubEv.id, key |-> pubEv.method, ok |-> ok])
    /\ brokerQ' = IF ok /\ pubEv.method \in BoundKeys
                  THEN Append(brokerQ, [id |-> pubEv.id, key |-> pubEv.method])
                  ELSE brokerQ
    /\ pubEv' = NoEvent
    /\ pubPc' = IF ok THEN "select" ELSE "stopped"
    /\ UNCHANGED <<reqVars, bootVars, ctxVars, runVars, httpTask, qVars,
                   pubChClosed, consVars, chDelivery, hVars>>

\* Variant: after a publish error the worker publishes the event again.
publishRetry(ok) ==
    /\ pubPc = "publishing"
    /\ pubCalls' = Append(pubCalls,
                          [id |-> pubEv.id, key |-> pubEv.method, ok |-> ok])
    /\ brokerQ' = IF ok /\ pubEv.method \in BoundKeys
                  THEN Append(brokerQ, [id |-> pubEv.id, key |-> pubEv.method])
                  ELSE brokerQ
    /\ pubEv' = IF ok THEN NoEvent ELSE pubEv
    /\ pubPc' = IF ok THEN "select" ELSE "publishing"
    /\ UNCHANGED <<reqVars, bootVars, ctxVars, runVars, httpTask, qVars,
                   pubChClosed, consVars, chDelivery, hVars>>

\* r.publish(ctx, e) returns.  The message is routed with key e.Method; on
\* success the broker stores it in the queue when that key is bound.  An
\* error is only logged: the worker goes back to the select.
publish(ok) ==
    /\ pubPc = "publishing"
    /\ pubCalls' = Append(pubCalls,
                          [id |-> pubEv.id, key |-> pubEv.method, ok |-> ok])
    /\ brokerQ' = IF ok /\ pubEv.method \in BoundKeys
                  THEN Append(brokerQ, [id |-> pubEv.id, key |-> pubEv.method])
                  ELSE brokerQ
    /\ pubEv' = NoEvent
    /\ pubPc' = "select"
    /\ UNCHANGED <<reqVars, bootVars, ctxVars, runVars, httpTask, qVars,
                   pubChClosed, consVars, chDelivery, hVars>>

\* Variant: the worker also closes the queue and returns when it finds
\* the queue empty.
PubCancelOnEmptyQueue ==
    /\ pubPc = "select"
    /\ ctxDone \/ Len(in) = 0
    /\ inClosed' = TRUE
    /\ pubChClosed' = TRUE
    /\ pubPc' = "stopped"
    /\ UNCHANGED <<reqVars, bootVars, ctxVars, runVars, httpTask, in,
                   accepted, pubEv, pubCalls, consVars, brokerVars, hVars>>

\* Variant: on cancellation the worker first flushes the buffered events
\* to the broker.
PubCancelFlush ==
    /\ pubPc = "select"
    /\ ctxDone
    /\ pubCalls' = pubCalls \o
          [i \in 1..Len(in) |-> [id |-> in[i].id, key |-> in[i].method, ok |-> TRUE]]
    /\ in' = <<>>
    /\ inClosed' = TRUE
    /\ pubChClosed' = TRUE
    /\ pubPc' = "stopped"
    /\ UNCHANGED <<reqVars, bootVars, ctxVars, runVars, httpTask, accepted,
                   pubEv, consVars, brokerVars, hVars>>

\* select: case <-ctx.Done(): close(r.in); r.pubCh.Close(); return
PubCancel ==
    /\ pubPc = "select"
    /\ ctxDone
    /\ inClosed' = TRUE
    /\ pubChClosed' = TRUE
    /\ pubPc' = "stopped"
    /\ UNCHANGED <<reqVars, bootVars, ctxVars, runVars, httpTask, in,
                   accepted, pubEv, pubCalls, consVars, brokerVars, hVars>>

\* ------------------------------------------------- broker and consumer

\* Variant: the consumer is registered without autoAck and never acks, so
\* the broker keeps the message it has handed over.
BrokerDeliverKeepsMessage ==
    /\ subscribed
    /\ Len(brokerQ) > 0
    /\ ~chConsumeClosed
    /\ chDelivery' = Append(chDelivery, Head(brokerQ))
    /\ UNCHANGED <<reqVars, bootVars, ctxVars, runVars, httpTask, pubVars,
                   qVars, consVars, hVars, brokerQ>>

\* The broker hands the oldest queued message to the subscribed consumer;
\* with autoAck = true (Consume's third argument) it removes the message
\* from the queue at that moment.
BrokerDeliver ==
    /\ subscribed
    /\ Len(brokerQ) > 0
    /\ ~chConsumeClosed
    /\ chDelivery' = Append(chDelivery, Head(brokerQ))
    /\ brokerQ' = Tail(brokerQ)
    /\ UNCHANGED <<reqVars, bootVars, ctxVars, runVars, httpTask, pubVars,
                   qVars, consVars, hVars>>

\* Variant: a routing key outside the three cases is used as the label.
ActionLabelEchoesKey(rk) ==
    CASE rk = "POST" -> "UserCreated"
      [] rk = "PUT" -> "UserUpdated"
      [] rk = "DELETE" -> "UserDeleted"
      [] OTHER -> rk

\* Consumer.delivery: the action label of a routing key.
ActionLabel(rk) ==
    CASE rk = "POST" -> "UserCreated"
      [] rk = "PUT" -> "UserUpdated"
      [] rk = "DELETE" -> "UserDeleted"
      [] OTHER -> ""

\* select: case msg := <-c.chDelivery: c.delivery(msg)
ConsReceive ==
    /\ consPc = "select"
    /\ Len(chDelivery) > 0
    /\ handled' = Append(handled, [id |-> Head(chDelivery).id,
                                   action |-> ActionLabel(Head(chDelivery).key)])
    /\ chDelivery' = Tail(chDelivery)
    /\ UNCHANGED <<reqVars, bootVars, ctxVars, runVars, httpTask, pubVars,
                   qVars, consPc, chConsumeClosed, brokerQ, hVars>>

\* Variant: the consumer looks at the cancellation only when no delivery
\* is waiting, and leaves without closing its channel.
ConsCancelWhenIdle ==
    /\ consPc = "select"
    /\ ctxDone
    /\ Len(chDelivery) = 0
    /\ Len(brokerQ) = 0
    /\ consPc' = "stopped"
    /\ UNCHANGED <<reqVars, bootVars, ctxVars, runVars, httpTask, pubVars,
                   qVars, handled, chConsumeClosed, brokerVars, hVars>>

\* select: case <-ctx.Done(): c.chConsume.Close(); return
ConsCancel ==
    /\ consPc = "select"
    /\ ctxDone
    /\ chConsumeClosed' = TRUE
    /\ consPc' = "stopped"
    /\ UNCHANGED <<reqVars, bootVars, ctxVars, runVars, httpTask, pubVars,
                   qVars, handled, brokerVars, hVars>>

\* ------------------------------------------------------- specification

Next ==
    \/ \E res \in ConnectResults : MqConnect(res)
    \/ \E f \in PubFailPoints : MqInit(f)
    \/ \E res \in ConnectResults : ConsConnect(res)
    \/ \E f \in ConsFailPoints : ConsInit(f)
    \/ \E s \in Signals : Signal(s)
    \/ SignalDispatch
    \/ RunStart
    \/ RunCtxDone
    \/ RunShutdownOK
    \/ RunShutdownErr
    \/ RunWait
    \/ HttpListen
    \/ HttpFail
    \/ HttpClosed
    \/ \E h \in Handlers : HandlerStart(h)
    \/ \E h \in Handlers, out \in RepoOutcomes : RepoReturn(h, out)
    \/ \E h \in Handlers : Send(h)
    \/ \E h \in Handlers : SendPanic(h)
    \/ PubDequeue
    \/ \E ok \in BOOLEAN : publish(ok)
    \/ PubCancel
    \/ BrokerDeliver
    \/ ConsReceive
    \/ ConsCancel
    \/ MainClose

Spec == Init /\ [][Next]_vars

\* Scheduling the runtime guarantees: a goroutine that can take a step
\* takes it; a select whose cancellation case is ready again and again
\* takes that case eventually (the choice among ready cases is random);
\* Shutdown returns (with nil or, after the grace period, with an error);
\* a publish call returns.  Signals, requests and repository results are
\* the environment's and carry no fairness.
Fairness ==
    /\ WF_vars(SignalDispatch)
    /\ WF_vars(RunStart)
    /\ WF_vars(RunCtxDone)
    /\ WF_vars(RunShutdownOK \/ RunShutdownErr)
    /\ WF_vars(RunWait)
    /\ WF_vars(HttpClosed)
    /\ WF_vars(PubDequeue)
    /\ WF_vars(\E ok \in BOOLEAN : publish(ok))
    /\ SF_vars(PubCancel)
    /\ WF_vars(ConsReceive)
    /\ SF_vars(ConsCancel)
    /\ \A h \in Handlers : WF_vars(SendPanic(h))

FairSpec == Spec /\ Fairness

\* ------------------------------------------- delivery handling on its own

\* Routing keys a delivery can carry: the three bound keys, and keys of
\* messages that reach the queue from elsewhere (another method, another
\* spelling, the queue's name for a message sent through the default
\* exchange, the empty key).
DeliveryKeys == {"POST", "PUT", "DELETE", "PATCH", "post", "cfg.QueueName", ""}

\* The application is running, the consumer is at its select and up to
\* MaxDeliveries deliveries with any of these routing keys are waiting on
\* c.chDelivery; the context is live or already cancelled.  A delivery's id
\* stands for its body.
DeliveryInit ==
    /\ ctxDone \in BOOLEAN
    /\ sig = "none"
    /\ runPc = "waitCtx"
    /\ runRet = "none"
    /\ srvShutdown = FALSE
    /\ httpTask = "serving"
    /\ in = <<>>
    /\ inClosed = FALSE
    /\ pubPc = "select"
    /\ pubEv = NoEvent
    /\ pubChClosed = FALSE
    /\ pubCalls = <<>>
    /\ brokerQ = <<>>
    /\ \E n \in 0..MaxDeliveries : \E ks \in [1..n -> DeliveryKeys] :
          chDelivery = [i \in 1..n |-> [id |-> i, key |-> ks[i]]]
    /\ consPc = "select"
    /\ chConsumeClosed = FALSE
    /\ handled = <<>>
    /\ hpc = [h \in Handlers |-> "idle"]
    /\ hop \in Workloads
    /\ accepted = <<>>
    /\ counters = [o \in Ops |-> 0]
    /\ boot = "ready"
    /\ topology = DeclaredTopology
    /\ subscribed = TRUE
    /\ conns = [c \in ConnIds |-> "open"]
    /\ rConn = "pub"
    /\ cConn = "cons"
    /\ chConsume = "open"
    /\ appClosed = FALSE
    /\ req = NoRequest
    /\ rpc = "done"
    /\ written = <<>>
    /\ svcCalls = <<>>
    /\ handlerRan = FALSE

\* The steps of DeliveryWorker alone.
DeliveryNext ==
    \/ ConsReceive
    \/ ConsCancel

DeliverySpec == DeliveryInit /\ [][DeliveryNext]_vars

\* ------------------------------------- DeliveryWorker on a lost connection

\* The consumer's connection is lost (closed by the broker or the network):
\* the amqp091 library closes the channel and with it the delivery stream
\* c.chDelivery.  The shared context is not touched.
ConnLost ==
    /\ consPc = "select"
    /\ conns[cConn] = "open"
    /\ conns' = [conns EXCEPT ![cConn] = "lost"]
    /\ UNCHANGED <<appVars, boot, topology, subscribed, rConn, cConn,
                   chConsume, appClosed>>

\* The deliveries dispatched to the handler that no broker delivered.
ZeroReceives == {i \in 1..Len(handled) : handled[i].id = 0}

\* select: case msg := <-c.chDelivery on the closed and drained stream: the
\* receive returns at once with the zero Delivery (there is no ok check),
\* which c.delivery handles like any other; the case stays ready.
ConsReceiveClosed ==
    /\ consPc = "select"
    /\ conns[cConn] = "lost"
    /\ Len(chDelivery) = 0
    /\ Cardinality(ZeroReceives) < MaxZeroReceives
    /\ handled' = Append(handled, [id |-> 0, action |-> ActionLabel("")])
    /\ UNCHANGED <<reqVars, bootVars, ctxVars, runVars, httpTask, pubVars,
                   qVars, consPc, chConsumeClosed, brokerVars, hVars>>

\* The steps of DeliveryWorker with a connection that can be lost.
StreamNext ==
    \/ ConsReceive
    \/ ConsCancel
    \/ ConnLost
    \/ ConsReceiveClosed

StreamSpec == DeliveryInit /\ [][StreamNext]_vars

\* ------------------------------------------- one request, router to reply

\* Everything but the request in the handler chain.
sysVars == <<bootVars, ctxVars, runVars, httpTask, pubVars, qVars, consVars,
             brokerVars, hVars>>

\* What the stubbed services return to the controllers.
FindByEmailOutcomes == {"err", "none", "rec"}
GenerateTokenOutcomes ==
    {"token", "ErrInvalidCredentials", "ErrFailedToGenerateToken"}
CreateUserOutcomes == {"ErrEmailAlreadyExists", "err", "rec"}
UpdateUserOutcomes == {"err", "none", "rec"}
DeleteUserOutcomes == {"err", "nil"}

Call(method, ret) == [call |-> method, ret |-> ret]

\* A request has arrived at the router with the application serving; the
\* chain of a protected route starts with the middleware.
RequestInit ==
    /\ ctxDone = FALSE
    /\ sig = "none"
    /\ runPc = "waitCtx"
    /\ runRet = "none"
    /\ srvShutdown = FALSE
    /\ httpTask = "serving"
    /\ in = <<>>
    /\ inClosed = FALSE
    /\ pubPc = "select"
    /\ pubEv = NoEvent
    /\ pubChClosed = FALSE
    /\ pubCalls = <<>>
    /\ brokerQ = <<>>
    /\ chDelivery = <<>>
    /\ consPc = "select"
    /\ chConsumeClosed = FALSE
    /\ handled = <<>>
    /\ hpc = [h \in Handlers |-> "idle"]
    /\ hop \in Workloads
    /\ accepted = <<>>
    /\ counters = [o \in Ops |-> 0]
    /\ boot = "ready"
    /\ topology = DeclaredTopology
    /\ subscribed = TRUE
    /\ conns = [c \in ConnIds |-> "open"]
    /\ rConn = "pub"
    /\ cConn = "cons"
    /\ chConsume = "open"
    /\ appClosed = FALSE
    /\ req \in Requests
    /\ rpc = IF req.route \in ProtectedRoutes THEN "middleware" ELSE "handler"
    /\ written = <<>>
    /\ svcCalls = <<>>
    /\ handlerRan = FALSE

\* Variant: the middleware writes the 401 with c.JSON and returns, which
\* does not abort the chain: the handler runs next.
AuthMiddlewareNoAbort ==
    /\ rpc = "middleware"
    /\ LET authHeader == req.auth
           tokenStr == TrimPrefixBearer(authHeader)
           reject == \/ authHeader = <<>>
                     \/ tokenStr = authHeader
                     \/ ~ValidateToken(tokenStr)
       IN  /\ written' = IF reject
                         THEN Append(written, "StatusUnauthorized")
                         ELSE written
           /\ rpc' = "handler"
    /\ UNCHANGED <<sysVars, req, svcCalls, handlerRan>>

\* middleware.AuthMiddleware: an empty header, a header without the
\* "Bearer " prefix or a token that fails validation is answered with
\* c.AbortWithStatusJSON(401), which keeps the rest of the chain from
\* running; otherwise c.Next() enters the handler.
AuthMiddleware ==
    /\ rpc = "middleware"
    /\ LET authHeader == req.auth
           tokenStr == TrimPrefixBearer(authHeader)
           reject == \/ authHeader = <<>>
                     \/ tokenStr = authHeader
                     \/ ~ValidateToken(tokenStr)
       IN  /\ written' = IF reject
                         THEN Append(written, "StatusUnauthorized")
                         ELSE written
           /\ rpc' = IF reject THEN "aborted" ELSE "handler"
    /\ UNCHANGED <<sysVars, req, svcCalls, handlerRan>>

\* validator.ValidateLogin(req) returns nil (email and password valid).
ValidateLogin(r) == r.fieldsOK

\* The responses LoginHandler writes for an error of GenerateToken: both
\* tests are errors.Is(err, userDB.ErrEmailAlreadyExists).
LoginErrorWrites(err) ==
    (IF err = "ErrEmailAlreadyExists"
     THEN <<"StatusUnauthorized">> ELSE <<>>)
    \o (IF err = "ErrEmailAlreadyExists"
        THEN <<"StatusInternalServerError">> ELSE <<>>)

\* AuthController.LoginHandler, with the results of FindByEmail and
\* GenerateToken.
LoginHandler(found, tok) ==
    /\ rpc = "handler"
    /\ req.route = "login"
    /\ handlerRan' = TRUE
    /\ rpc' = "done"
    /\ IF ~req.bindOK \/ ~ValidateLogin(req)
       THEN /\ written' = Append(written, "StatusBadRequest")
            /\ svcCalls' = svcCalls
       ELSE IF found # "rec"
       THEN /\ written' = Append(written,
                              IF found = "err"
                              THEN "StatusInternalServerError"
                              ELSE "StatusNotFound")
            /\ svcCalls' = Append(svcCalls, Call("FindByEmail", found))
       ELSE /\ written' = written \o (IF tok = "token"
                                      THEN <<"StatusOK">>
                                      ELSE LoginErrorWrites(tok))
            /\ svcCalls' = svcCalls \o <<Call("FindByEmail", found),
                                         Call("GenerateToken", tok)>>
    /\ UNCHANGED <<sysVars, req>>

\* UserController.CreateUserHandler, with the result of CreateUser.  An
\* error of ToDomainUser writes a 400 and the handler goes on.
CreateUserHandler(out) ==
    /\ rpc = "handler"
    /\ req.route = "create"
    /\ handlerRan' = TRUE
    /\ rpc' = "done"
    /\ IF ~req.bindOK \/ ~ValidateUser(req)
       THEN /\ written' = Append(written, "StatusBadRequest")
            /\ svcCalls' = svcCalls
       ELSE /\ written' =
                 written
                 \o (IF ToDomainUserErr(req)
                     THEN <<"StatusBadRequest">> ELSE <<>>)
                 \o <<CASE out = "ErrEmailAlreadyExists" -> "StatusConflict"
                        [] out = "err" -> "StatusInternalServerError"
                        [] out = "rec" -> "StatusCreated">>
            /\ svcCalls' = Append(svcCalls, Call("CreateUser", out))
    /\ UNCHANGED <<sysVars, req>>

\* UserController.UpdateUserHandler, with the result of UpdateUser.  An
\* error of ToDomainUser writes a 400 and the handler goes on.
UpdateUserHandler(out) ==
    /\ rpc = "handler"
    /\ req.route = "update"
    /\ handlerRan' = TRUE
    /\ rpc' = "done"
    /\ IF ~req.idIsUUID \/ ~req.bindOK \/ ~ValidateUser(req)
       THEN /\ written' = Append(written, "StatusBadRequest")
            /\ svcCalls' = svcCalls
       ELSE /\ written' =
                 written
                 \o (IF ToDomainUserErr(req)
                     THEN <<"StatusBadRequest">> ELSE <<>>)
                 \o <<CASE out = "err" -> "StatusInternalServerError"
                        [] out = "none" -> "StatusNotFound"
                        [] out = "rec" -> "StatusOK">>
            /\ svcCalls' = Append(svcCalls, Call("UpdateUser", out))
    /\ UNCHANGED <<sysVars, req>>

\* UserController.DeleteUserHandler, with the result of DeleteUser.
DeleteUserHandler(out) ==
    /\ rpc = "handler"
    /\ req.route = "delete"
    /\ handlerRan' = TRUE
    /\ rpc' = "done"
    /\ IF ~req.idIsUUID
       THEN /\ written' = Append(written, "StatusBadRequest")
            /\ svcCalls' = svcCalls
       ELSE /\ written' = Append(written,
                              IF out = "err"
                              THEN "StatusInternalServerError"
                              ELSE "StatusNoContent")
            /\ svcCalls' = Append(svcCalls, Call("DeleteUser", out))
    /\ UNCHANGED <<sysVars, req>>

\* The status of the HTTP response: that of the first write; with no
\* write gin answers 200 with an empty body.
ResponseStatus == IF written = <<>> THEN "StatusOK" ELSE written[1]

RequestNext ==
    \/ AuthMiddleware
    \/ \E found \in FindByEmailOutcomes, tok \in GenerateTokenOutcomes :
          LoginHandler(found, tok)
    \/ \E out \in CreateUserOutcomes : CreateUserHandler(out)
    \/ \E out \in UpdateUserOutcomes : UpdateUserHandler(out)
    \/ \E out \in DeleteUserOutcomes : DeleteUserHandler(out)

RequestSpec == RequestInit /\ [][RequestNext]_vars

\* ---------------------------------------------------------------- claims

Ids(s) == [i \in 1..Len(s) |-> s[i].id]

\* The event the Publisher Worker has dequeued and not yet published.
InFlight == IF pubPc = "publishing" THEN <<pubEv.id>> ELSE <<>>

Blocked(h) == hpc[h] = "send" /\ Len(in) = bufferSize /\ ~inClosed

\* The publish calls made so far, followed by the event being published and
\* the events still buffered, are the accepted events in acceptance order.
C1_FifoOrder == accepted = Ids(pubCalls) \o InFlight \o Ids(in)

C2_Backpressure ==
    /\ [](Len(in) <= bufferSize)
    /\ [][\A h \in Handlers :
            /\ Blocked(h) => hpc'[h] = "send"
            /\ (hpc[h] = "send" /\ hpc'[h] = "ok")
                  => (Len(in) < bufferSize /\ in' = Append(in, EventOf(h)))]_vars

\* C2 witness: the queue is full and a handler is blocked at its send.
C2_Witness == \E h \in Handlers : Blocked(h)

\* C3 as stated: once the shared context is cancelled the Publisher Worker
\* dequeues no further event (it never moves from the select to a publish).
C3_NoDequeueAfterCancel ==
    [][ctxDone => ~(pubPc = "select" /\ pubPc' = "publishing")]_vars

\* C3, amended: once the Publisher Worker has taken the cancellation branch
\* it dequeues and publishes nothing more, and that branch itself publishes
\* nothing: the events in the queue at that moment stay there unpublished,
\* so the publish calls are the accepted events minus those left buffered.
\* (Between the cancellation and that branch the worker may still dequeue
\* and publish.)
C3_NoFlushOnceStopped ==
    /\ [](pubPc = "stopped" =>
            /\ Len(pubCalls) + Len(in) = Len(accepted)
            /\ \A i \in 1..Len(in), j \in 1..Len(pubCalls) :
                   in[i].id # pubCalls[j].id)
    /\ [][pubPc' = "stopped" =>
            /\ pubCalls' = pubCalls
            /\ in' = in
            /\ (pubPc # "stopped" => ctxDone)]_vars

\* C3 witness: the worker has stopped and an accepted event is left in the
\* queue, unpublished.
C3_Witness ==
    /\ pubPc = "stopped"
    /\ Len(in) > 0
    /\ Len(pubCalls) < Len(accepted)

\* C4: once the queue is closed a handler at its send can only stay there
\* or fail with the panic of a send on a closed channel (it never enqueues),
\* and it does fail: handlers at the send of a closed queue lead to no
\* handler being at the send.
C4_FailFastAfterClose ==
    /\ [][\A h \in Handlers :
            (inClosed /\ hpc[h] = "send") => hpc'[h] \in {"send", "panic"}]_vars
    /\ (\E h \in Handlers : inClosed /\ hpc[h] = "send")
          ~> (\A h \in Handlers : hpc[h] # "send")

\* C4 witness: a handler's send failed on the closed queue while the queue
\* was full (a send that could not have completed before the close).
C4_Witness ==
    /\ inClosed
    /\ Len(in) = bufferSize
    /\ \E h \in Handlers : hpc[h] = "panic"

C6_RunReturns == ctxDone ~> (runPc = "done")

\* C6 witness: App.Run has returned although a handler was at its send when
\* the queue got closed (it panicked) and events were left in the queue.
C6_Witness ==
    /\ runPc = "done"
    /\ Len(in) > 0
    /\ \E h \in Handlers : hpc[h] = "panic"

\* C7 as stated: when App.Run has returned the error of the HTTP shutdown,
\* both workers have returned.
C7_WorkersWaitedOnShutdownError ==
    runRet = "shutdownErr" => (pubPc = "stopped" /\ consPc = "stopped")

\* C8 as stated: a task error cancels the shared context and is what
\* App.Run returns; without a task error and with a successful HTTP
\* shutdown App.Run returns nil.
C8_FirstTaskError ==
    /\ httpTask = "retErr" => ctxDone
    /\ runPc = "done" =>
          IF httpTask = "retErr"
          THEN runRet = "taskErr"
          ELSE (runRet # "shutdownErr" => runRet = "nil")

\* C9: App.Run waits for the tasks only after the HTTP shutdown has been
\* called and has returned, never shuts the server down before the
\* cancellation, and when it has returned nil the HTTP task, the publisher
\* and the consumer have all returned.
C9_ShutdownThenWait ==
    /\ runPc \in {"start", "waitCtx"} => ~srvShutdown
    /\ srvShutdown => ctxDone
    /\ runPc = "wait" => srvShutdown
    /\ runRet = "nil" =>
          /\ httpTask = "retNil"
          /\ pubPc = "stopped"
          /\ consPc = "stopped"

\* C9 witness: App.Run has returned nil.
C9_Witness == runPc = "done" /\ runRet = "nil"

\* The signals the claim names: interrupt, terminate, SIGUSR1.
ClaimedSignals == {"SIGINT", "SIGTERM", "SIGUSR1"}

C11_ResultOnlyFromRepo ==
    [][\A h \in Handlers :
          hpc[h] = "send" => hpc'[h] \in {"send", "ok"}]_vars

\* The step is the return of a publish call that failed.
PublishFailed ==
    /\ Len(pubCalls') = Len(pubCalls) + 1
    /\ ~pubCalls'[Len(pubCalls')].ok

\* C12: the return of a failed publish leaves the shared context, App.Run,
\* the HTTP server and the consumer as they were and puts the publisher
\* back at its select; the handling of a delivery leaves the context, the
\* HTTP server and the publisher as they were and the consumer at its
\* select (Consumer.delivery never returns an error).
C12_WorkerFailureIsolated ==
    /\ [][PublishFailed =>
            /\ pubPc' = "select"
            /\ UNCHANGED <<ctxDone, runVars, httpTask, consPc,
                           chConsumeClosed>>]_vars
    /\ [][handled' # handled =>
            /\ consPc' = "select"
            /\ UNCHANGED <<ctxDone, runVars, httpTask, pubPc, pubChClosed>>]_vars

\* C12 witness: a publish failed and the next event was published with
\* success, with the context live, the server serving and the consumer at
\* its select.
C12_Witness ==
    /\ \E i \in 1..(Len(pubCalls) - 1) : ~pubCalls[i].ok /\ pubCalls[i + 1].ok
    /\ ~ctxDone
    /\ httpTask = "serving"
    /\ consPc = "select"

\* Ids of the messages the broker holds or has handed to the consumer.
BrokerIds ==
    {brokerQ[i].id : i \in 1..Len(brokerQ)}
    \cup {chDelivery[i].id : i \in 1..Len(chDelivery)}
    \cup {handled[i].id : i \in 1..Len(handled)}

\* C13: no event has two publish calls; an event that had its publish call
\* is neither in the queue nor with the worker again; an event whose publish
\* failed never reaches the broker; when the worker is not inside a publish
\* call every dequeued event has had its call; and the return of a publish
\* call adds one call and leaves the queue as it was.
C13_OnePublishAttempt ==
    /\ [](\A i, j \in 1..Len(pubCalls) :
             i # j => pubCalls[i].id # pubCalls[j].id)
    /\ [](\A i \in 1..Len(pubCalls) :
             /\ \A k \in 1..Len(in) : in[k].id # pubCalls[i].id
             /\ pubEv.id # pubCalls[i].id
             /\ ~pubCalls[i].ok => pubCalls[i].id \notin BrokerIds)
    /\ [](pubPc # "publishing" => Len(pubCalls) + Len(in) = Len(accepted))
    /\ [][pubCalls' # pubCalls =>
            /\ pubPc = "publishing"
            /\ pubCalls' = Append(pubCalls, pubCalls'[Len(pubCalls')])
            /\ pubCalls'[Len(pubCalls')].id = pubEv.id
            /\ in' = in]_vars

\* C13 witness: an event's publish failed, the worker is back at its select
\* with the queue open and empty, and a later event reached the broker.
C13_Witness ==
    /\ \E i \in 1..Len(pubCalls) : ~pubCalls[i].ok
    /\ pubPc = "select"
    /\ in = <<>> /\ ~inClosed
    /\ BrokerIds # {}

\* Ids of the messages on the broker side, from the queue to the handler.
BrokerSide == Ids(brokerQ) \o Ids(chDelivery) \o Ids(handled)

\* C14: a message is in one place only: in the broker queue, handed to the
\* consumer, or dispatched to the handler, and never twice in any of them;
\* handing a message over removes it from the broker queue in the same
\* step; and the dispatch to the handler takes the oldest handed-over
\* message and puts nothing back into the broker queue.
C14_AutoAckNoRedelivery ==
    /\ [](\A i, j \in 1..Len(BrokerSide) :
             i # j => BrokerSide[i] # BrokerSide[j])
    /\ [][Len(chDelivery') > Len(chDelivery) =>
            /\ chDelivery' = Append(chDelivery, Head(brokerQ))
            /\ brokerQ' = Tail(brokerQ)]_vars
    /\ [][handled' # handled =>
            /\ Ids(handled') = Append(Ids(handled), Head(chDelivery).id)
            /\ chDelivery' = Tail(chDelivery)
            /\ brokerQ' = brokerQ]_vars

\* C14 witness: two messages were dispatched to the handler and the broker
\* holds nothing more.
C14_Witness ==
    /\ Len(handled) >= 2
    /\ brokerQ = <<>>
    /\ chDelivery = <<>>

\* C15: when the consumer's Init is about to run, after the publisher's
\* Init has succeeded, the broker accepts every one of its declarations and
\* bindings and they leave the topology as it is; the consumer's Init,
\* however far it gets, does not change the topology; and that topology is
\* one durable exchange, one durable queue and three bindings.
C15_TopologyIdempotent ==
    /\ [](boot \in {"consConnect", "consInit"} =>
            LET r == RunSteps(topology, ConsInitSteps, "none") IN
              /\ ~r.err
              /\ r.topology = topology)
    /\ [][boot = "consInit" => topology' = topology]_vars
    /\ [](boot \in {"consConnect", "consInit", "ready"} =>
            /\ Cardinality(topology.exchanges) = 1
            /\ Cardinality(topology.queues) = 1
            /\ Cardinality(topology.bindings) = 3
            /\ \A e \in topology.exchanges \cup topology.queues : e.durable)

\* C15 witness: both Init functions have run with success.
C15_Witness ==
    /\ boot = "ready"
    /\ subscribed
    /\ topology = DeclaredTopology

\* One of the three tasks of App.Run has been started.
TaskStarted ==
    \/ httpTask # "notStarted"
    \/ pubPc # "notStarted"
    \/ consPc # "notStarted"

\* The order of the set-up calls in NewApp.
BootForward ==
    {<<"mqConnect", "mqInit">>, <<"mqInit", "consConnect">>,
     <<"consConnect", "consInit">>, <<"consInit", "ready">>}

\* C16: whenever a task has been started, the start-up has completed and
\* the exchange, the queue, the three bindings and the subscription exist;
\* a process that ended in the start-up never started App.Run or a task,
\* and takes no further step (no retry); every set-up call is made once,
\* in order, and either goes on to the next or ends the process.
C16_StartupFailureFatal ==
    /\ [](TaskStarted =>
            /\ boot = "ready"
            /\ subscribed
            /\ PubExchange \in topology.exchanges
            /\ PubQueue \in topology.queues
            /\ \A i \in 1..Len(BindOrder) :
                   Binding(PubQueue, BindOrder[i], PubExchange)
                      \in topology.bindings)
    /\ [](boot = "exited" => (runPc = "start" /\ ~TaskStarted))
    /\ [][boot # "exited"]_vars
    /\ [][boot' # boot =>
            (boot' = "exited" \/ <<boot, boot'>> \in BootForward)]_vars

\* C16 witness: the process ended in rbMQ.Init at the third binding, with
\* the exchange, the queue and two bindings already declared.
C16_Witness ==
    /\ boot = "exited"
    /\ Cardinality(topology.bindings) = 2
    /\ runPc = "start"

\* The actions the claim names.
ClaimedActions == {"POST", "PUT", "DELETE"}

\* C17: every event in the queue or with the publisher has an action among
\* POST, PUT, DELETE; every publish call used a routing key among exactly
\* three keys bound to the queue, those same three; a publish call's
\* routing key is the action of the event it publishes; and every publish
\* that succeeded was routed to the queue (its key was bound).
C17_RoutingKeyBound ==
    /\ [](/\ \A i \in 1..Len(in) : in[i].method \in ClaimedActions
          /\ pubPc = "publishing" => pubEv.method \in ClaimedActions)
    /\ [](pubCalls # <<>> =>
            /\ BoundKeys = ClaimedActions
            /\ Cardinality(topology.bindings) = 3
            /\ \A i \in 1..Len(pubCalls) :
                   /\ pubCalls[i].key \in BoundKeys
                   /\ pubCalls[i].ok => pubCalls[i].id \in BrokerIds)
    /\ [][pubCalls' # pubCalls =>
            pubCalls'[Len(pubCalls')].key = pubEv.method]_vars

\* C17 witness: two events with different actions were published with
\* success and routed to the queue.
C17_Witness ==
    \E i, j \in 1..Len(pubCalls) :
        /\ pubCalls[i].key # pubCalls[j].key
        /\ pubCalls[i].ok /\ pubCalls[j].ok
        /\ {pubCalls[i].id, pubCalls[j].id} \subseteq BrokerIds

\* The mapping the claim states.
ClaimedLabel(rk) ==
    IF rk = "POST" THEN "UserCreated"
    ELSE IF rk = "PUT" THEN "UserUpdated"
    ELSE IF rk = "DELETE" THEN "UserDeleted"
    ELSE ""

\* C18: the handling of a delivery emits exactly one line, with the label
\* the claimed mapping gives for the delivery's routing key and with the
\* delivery's body unchanged, takes that delivery off the channel, and
\* leaves the consumer at its select (no error ends or diverts the worker).
C18_LabelMapping ==
    [][handled' # handled =>
         /\ chDelivery # <<>>
         /\ handled' = Append(handled,
                              [id |-> Head(chDelivery).id,
                               action |-> ClaimedLabel(Head(chDelivery).key)])
         /\ chDelivery' = Tail(chDelivery)
         /\ consPc' = "select"]_vars

\* C18 witness: a delivery with a bound key and one with another key were
\* handled, the second with the empty label.
C18_Witness ==
    \E i, j \in 1..Len(handled) :
        /\ handled[i].action = "UserUpdated"
        /\ handled[j].action = ""

\* C19: the queue goes from open to closed only in the step in which the
\* Publisher Worker leaves its select for good, and only with the shared
\* context cancelled; it never goes back to open; the worker leaves only
\* while the queue is still open and never runs again, so the close
\* happens at most once; and a closed queue means a cancelled context.
C19_ClosedOnceAfterCancel ==
    /\ [][inClosed' # inClosed =>
            /\ ~inClosed
            /\ ctxDone
            /\ pubPc = "select" /\ pubPc' = "stopped"]_vars
    /\ [][(pubPc # "stopped" /\ pubPc' = "stopped") => ~inClosed]_vars
    /\ [][pubPc = "stopped" => pubPc' = "stopped"]_vars
    /\ [](inClosed => (ctxDone /\ pubPc = "stopped"))

\* C19 witness: the queue is closed after events went through it, and
\* App.Run has returned nil.
C19_Witness ==
    /\ inClosed
    /\ Len(accepted) > 0
    /\ runRet = "nil"

\* C20 as stated: a SIGURG delivered to the running application leads to
\* the shared context cancelled, the HTTP server shut down and both
\* workers stopped.
C20_SigurgShutsDown ==
    (sig = "SIGURG")
        ~> (ctxDone /\ srvShutdown /\ pubPc = "stopped" /\ consPc = "stopped")

\* C24 as stated: a failed Consumer.Connect leaves the consumer with
\* neither a connection nor a consume channel.
C24_NothingHeldAfterFailedConnect ==
    [][(boot = "consConnect" /\ boot' = "exited") =>
          (cConn' = "nil" /\ chConsume' = "nil")]_vars

\* C24: a failed Consumer.Connect leaves the consumer without a consume
\* channel and without the connection it was constructed with, which stays
\* as it was; c.conn is nil after a failed dial, and otherwise is the
\* connection Connect dialed itself, which Connect has closed.
C24_NoUsableConnAfterFailedConnect ==
    [][(boot = "consConnect" /\ boot' = "exited") =>
          /\ chConsume' = "nil"
          /\ cConn = rConn /\ cConn' # rConn
          /\ conns'[rConn] = conns[rConn]
          /\ \/ cConn' = "nil" /\ conns'["cons"] = "undialed"
             \/ cConn' = "cons" /\ conns'["cons"] = "closed"]_vars

\* C24 witness: the process ended in Consumer.Connect with the consumer
\* holding the connection it dialed, closed, and no consume channel, the
\* publisher's connection being open.
C24_Witness ==
    /\ boot = "exited"
    /\ cConn = "cons"
    /\ conns["cons"] = "closed"
    /\ chConsume = "nil"
    /\ conns["pub"] = "open"

\* C30 as stated: once App.Close has run, no broker connection opened at
\* start-up is still open.
C30_AllConnectionsClosed ==
    appClosed => \A c \in ConnIds : conns[c] # "open"

\* C21 as stated: a counter changes only by one, and only in a step of a
\* use case of that operation whose repository call returned a record (the
\* use case is at its enqueue); an update or delete that found no user
\* leaves the counters alone.
C21_CountersCountAffectedRecords ==
    [][\A op \in Ops :
          counters'[op] # counters[op] =>
              /\ counters'[op] = counters[op] + 1
              /\ \E h \in Handlers :
                     /\ hop[h] = op
                     /\ hpc[h] = "send"
                     /\ hpc'[h] = "ok"]_vars

\* The action the claim gives to each mutation.
ClaimedActionOf(op) ==
    CASE op = "create" -> "POST"
      [] op = "update" -> "PUT"
      [] op = "delete" -> "DELETE"

\* C25 as stated: a use case whose repository call returned a record (it
\* is at the enqueue) goes on only by enqueuing one event with the action
\* of its mutation and its id; and the queue takes an event only from such
\* a use case, so never for an error or a missing record and never before
\* the repository call returned.
C25_EventIffRecord ==
    /\ [][\A h \in Handlers :
            (hpc[h] = "send" /\ hpc'[h] # "send") =>
                /\ in' = Append(in, [id |-> h,
                                     method |-> ClaimedActionOf(hop[h])])
                /\ accepted' = Append(accepted, h)]_vars
    /\ [][accepted' # accepted =>
            \E h \in Handlers :
                /\ hpc[h] = "send"
                /\ accepted' = Append(accepted, h)]_vars

\* C26 as stated: while the queue is closed no use case is at or before
\* its enqueue, the HTTP server takes no request, and no use case performs
\* its send.
C26_NoSendAfterClose ==
    /\ [](inClosed =>
            /\ httpTask # "serving"
            /\ \A h \in Handlers : hpc[h] \notin {"repo", "send"})
    /\ [][\A h \in Handlers :
            (hpc[h] = "send" /\ hpc'[h] # "send") => ~inClosed]_vars

\* C27 as stated: the Consumer Worker does not stop with a delivery still
\* buffered on its side; every delivery handed over is with the handler by
\* then.
C27_NoDeliveryDiscarded ==
    consPc = "stopped" => Len(chDelivery) = 0

\* C28 as stated: every delivery the Consumer Worker dispatched to the
\* handler is one the broker delivered, never the empty delivery read from
\* a closed stream.
C28_OnlyBrokerDeliveriesHandled ==
    \A i \in 1..Len(handled) : handled[i].id # 0

\* The results of the GenerateToken calls made for the request.
TokenResults ==
    {svcCalls[i].ret : i \in {j \in 1..Len(svcCalls) :
                                 svcCalls[j].call = "GenerateToken"}}

\* C22 as stated: when LoginHandler has returned after calling
\* GenerateToken, an ErrInvalidCredentials was answered with one 401, an
\* ErrFailedToGenerateToken with one 500, and the response has status 200
\* only if the token was generated.
C22_TokenErrorAnswered ==
    (rpc = "done" /\ req.route = "login") =>
        \A r \in TokenResults :
            /\ r = "ErrInvalidCredentials"
                  => written = <<"StatusUnauthorized">>
            /\ r = "ErrFailedToGenerateToken"
                  => written = <<"StatusInternalServerError">>
            /\ ResponseStatus = "StatusOK" => r = "token"

\* The request carries no Authorization header, one lacking the "Bearer "
\* prefix, or a token that fails validation.
Unauthenticated ==
    \/ req.auth = <<>>
    \/ Head(req.auth) # "Bearer "
    \/ ~ValidateToken(Tail(req.auth))

\* C23: on a protected route nothing is written and nothing runs before
\* the middleware; an unauthenticated request is, once the middleware has
\* run, answered with a single 401 and stays aborted: the handler is never
\* entered and no service method is called; and the handler is entered
\* only for an authenticated request.
C23_AuthFirst ==
    (req.route \in ProtectedRoutes) =>
        /\ rpc = "middleware" =>
              (written = <<>> /\ svcCalls = <<>> /\ ~handlerRan)
        /\ (Unauthenticated /\ rpc # "middleware") =>
              /\ rpc = "aborted"
              /\ written = <<"StatusUnauthorized">>
              /\ svcCalls = <<>>
              /\ ~handlerRan
        /\ (handlerRan \/ svcCalls # <<>>) => ~Unauthenticated

\* C23 witness: a PUT with a rejected token and an invalid path id and
\* body was answered 401 by the middleware.
C23_Witness ==
    /\ req.route = "update"
    /\ req.auth = <<"Bearer ", "bad">>
    /\ ~req.idIsUUID
    /\ ~req.bindOK
    /\ rpc = "aborted"
    /\ written = <<"StatusUnauthorized">>

\* C29 as stated: when CreateUserHandler or UpdateUserHandler has written
\* a 400, it called no service method and wrote exactly one response.
C29_BadRequestStopsHandler ==
    (/\ rpc = "done"
     /\ req.route \in {"create", "update"}
     /\ \E i \in 1..Len(written) : written[i] = "StatusBadRequest")
        => (svcCalls = <<>> /\ Len(written) = 1)

====
